---- MODULE Spec2Model ----
(***************************************************************************)
(* Model of llama-cpp-2: the end-of-generation detector and the token      *)
(* codec of LlamaModel (src/model.rs) and the generation loop of the       *)
(* `simple` example (examples/simple.rs).                                  *)
(*                                                                         *)
(* The specifications share the variables:                                 *)
(*   Spec       the generation loop of main(), one step per statement      *)
(*              group, with the detector and the codec called inside it;   *)
(*   SpecFair   Spec, with main running on while it has a step to take;    *)
(*   SpecDet    callers (sessions) of LlamaModel::is_eog_token, which all  *)
(*              share the one `static mut LAST_TOKEN`;                     *)
(*   SpecCodec  calls of LlamaModel::token_to_bytes with the engine's      *)
(*              conversion results as inputs;                              *)
(*   SpecCodecAny  the same with every first result the error type admits. *)
(***************************************************************************)
EXTENDS Integers, Sequences, FiniteSets, TLC

(* ------------------------------ bounds -------------------------------- *)

\* size of the vocabulary: token ids 0 .. NumTokens-1
NumTokens == 4
\* largest caller-supplied n_len
MaxLen == 10
\* the shortest prompt is MaxLen - MaxSteps tokens
MaxSteps == 5
\* longest token piece, in bytes (beyond the 8-byte first buffer)
MaxPiece == 10
\* number of is_eog_token calls made in SpecDet
MaxCalls == 4

(* ------------------------- tokens and the engine ---------------------- *)

Tokens == 0 .. (NumTokens - 1)

\* llama_token_eos(vocab): the model's canonical end-of-sequence token
EOS == 2

\* a token the engine classifies as end of generation that is not EOS
EOT == EOS + 1

\* Option<LlamaToken>: None is the empty sequence, Some(t) is <<t>>
None == << >>

Some(t) == << t >>

\* more than one distinct token was sampled
Mixed == << 0, 1 >>

\* the sets llama_token_is_eog may answer true for: EOT always, EOS or not
EogIdSets == { {EOT}, {EOS, EOT} }

VARIABLES
  LAST_TOKEN,      \* static mut LAST_TOKEN: Option<LlamaToken>
  eog_ids,         \* the engine's end-of-generation token set
  \* ---- generation loop (main) ----
  pc,              \* position in main
  exit,            \* how the loop was left ("" while running)
  n_prompt,        \* number of prompt tokens in the initial batch
  n_len,           \* caller-supplied length
  n_cur,
  n_decode,
  consecutive_eos,
  token,           \* the token sampled in this iteration
  batch,           \* LlamaBatch: sequence of entries
  sample_idx,      \* index handed to sampler.sample
  output_bytes,
  pending,         \* bytes held back by the UTF-8 decoder
  eog_ret,         \* what is_eog_token returned for `token`
  n_sampled,       \* calls of sampler.sample
  n_converted,     \* successful token_to_bytes calls
  n_emitted,       \* fragments printed
  n_decode_calls,  \* calls of ctx.decode inside the loop
  n_decode_errs,   \* of which failed
  seen,            \* None, Some(t) while every sampled token was t, else Mixed
  \* ---- detector sessions ----
  dpc,             \* per session: "idle" or "store"
  darg,            \* per session: the token of the call in progress
  drep,            \* per session: is_repeat of the call in progress
  hist,            \* completed calls, in order of completion
  \* ---- codec calls ----
  conv             \* the last token_to_bytes call: inputs and outcome

loopVars == << pc, exit, n_prompt, n_len, n_cur, n_decode, consecutive_eos,
               token, batch, sample_idx, output_bytes, pending, eog_ret,
               n_sampled, n_converted, n_emitted, n_decode_calls,
               n_decode_errs, seen >>

detVars == << dpc, darg, drep, hist >>

vars == << LAST_TOKEN, eog_ids, loopVars, detVars, conv >>

(* ----------------------------- detector ------------------------------- *)

\* llama_cpp_sys_2::llama_token_is_eog(vocab, token)
llama_token_is_eog(ids, t) == t \in ids

\* a detector that never compares with the last token
IsRepeatNever(last, t) == FALSE

\* line 140: let is_repeat = LAST_TOKEN == Some(token)
IsRepeat(last, t) == last = Some(t)

\* a detector that leaves the EOS comparison to the engine
EogValueNoEos(is_repeat, ids, t) ==
  is_repeat \/ llama_token_is_eog(ids, t)

\* line 142: is_repeat || token == self.token_eos() || llama_token_is_eog(..)
EogValue(is_repeat, ids, t) ==
  is_repeat \/ t = EOS \/ llama_token_is_eog(ids, t)

\* a detector that remembers only the first token it was given
StoreLastOnce(last, t) == IF last = None THEN Some(t) ELSE last

\* line 141: LAST_TOKEN = Some(token)
StoreLast(last, t) == Some(t)

\* is_eog_token run by one thread with no other call in between:
\* the value returned and the LAST_TOKEN it leaves
is_eog_token(last, ids, t) ==
  [ ret  |-> EogValue(IsRepeat(last, t), ids, t),
    last |-> StoreLast(last, t) ]

(* ------------------------------- codec -------------------------------- *)

\* first buffer size handed to token_to_bytes_with_size
DefaultBufSize == 8

\* the byte b"\n"
Newline == 10

\* Result<Vec<u8>, TokenToStringError>
Ok(b) == [ kind |-> "Ok", bytes |-> b, i |-> 0 ]

InsufficientBufferSpace(i) ==
  [ kind |-> "InsufficientBufferSpace", bytes |-> << >>, i |-> i ]

UnknownTokenType == [ kind |-> "UnknownTokenType", bytes |-> << >>, i |-> 0 ]

\* stands for "no second conversion was made"
NoResult == [ kind |-> "NoResult", bytes |-> << >>, i |-> 0 ]

\* pieces of the vocabulary: an ASCII letter, a newline, the two bytes of a
\* two-byte UTF-8 character separately and together, and long ASCII pieces
ShortPieces == { << 97 >>, << Newline >>, << 195 >>, << 169 >>, << 195, 169 >> }

LongPieces == { [ j \in 1 .. n |-> 97 ] : n \in (DefaultBufSize + 1) .. MaxPiece }

Pieces == ShortPieces \cup LongPieces

\* token_to_bytes_with_size(token, size, special, None): the results the engine
\* conversion can give for a buffer of `size` bytes: a piece that fits, the
\* negated size of a piece that does not fit, or an unknown token
token_to_bytes_with_size(size) ==
  { Ok(b) : b \in { p \in Pieces : Len(p) <= size } }
    \cup { InsufficientBufferSpace(-n) : n \in (size + 1) .. MaxPiece }
    \cup { UnknownTokenType }

\* the least c_int (i32)
I32Min == -2147483647 - 1

\* (-i).try_into(): does -i convert to usize. -i overflows for the least i32:
\* the negation panics where overflow is checked and wraps to the least i32
\* where it is not, which try_into() rejects, so expect() panics either way
FitsUsize(i) == i /= I32Min /\ -i >= 0

\* the first results the type Result<Vec<u8>, TokenToStringError> admits beyond
\* those of the engine's contract: InsufficientBufferSpace of zero, of a
\* positive value and of the least i32
AnyFirstResults ==
  token_to_bytes_with_size(DefaultBufSize)
    \cup { InsufficientBufferSpace(i) : i \in { I32Min, 0, 1, MaxPiece } }

\* the second conversion the code makes after a first result r1, as the set of
\* results it can get; {NoResult} when the code makes none
RetryResults(t, r1) ==
  IF t /= EOS /\ r1.kind = "InsufficientBufferSpace" /\ FitsUsize(r1.i)
  THEN token_to_bytes_with_size(-r1.i)
  ELSE { NoResult }

\* a codec that converts the EOS token like any other
token_to_bytes_literal_eos(last, ids, t, r1, r2) ==
  IF r1.kind = "InsufficientBufferSpace"
  THEN [ ret |-> r2, sizes |-> << DefaultBufSize, -r1.i >>,
         panic |-> FALSE, last |-> last ]
  ELSE [ ret |-> r1, sizes |-> << DefaultBufSize >>,
         panic |-> FALSE, last |-> last ]

\* a codec that calls is_eog_token for every token (`&` in place of `&&`)
token_to_bytes_eager(last, ids, t, r1, r2) ==
  LET d == is_eog_token(last, ids, t)
  IN  IF t = EOS /\ d.ret
      THEN [ ret |-> Ok(<< Newline >>), sizes |-> << >>, panic |-> FALSE,
             last |-> d.last ]
      ELSE IF r1.kind = "InsufficientBufferSpace"
           THEN IF FitsUsize(r1.i)
                THEN [ ret |-> r2, sizes |-> << DefaultBufSize, -r1.i >>,
                       panic |-> FALSE, last |-> d.last ]
                ELSE [ ret |-> NoResult, sizes |-> << DefaultBufSize >>,
                       panic |-> TRUE, last |-> d.last ]
           ELSE [ ret |-> r1, sizes |-> << DefaultBufSize >>,
                  panic |-> FALSE, last |-> d.last ]

\* a codec that retries with twice the first buffer instead of the size reported
token_to_bytes_doubling(last, ids, t, r1, r2) ==
  LET d == is_eog_token(last, ids, t)
      last1 == IF t = EOS THEN d.last ELSE last
  IN  IF t = EOS /\ d.ret
      THEN [ ret |-> Ok(<< Newline >>), sizes |-> << >>, panic |-> FALSE,
             last |-> last1 ]
      ELSE IF r1.kind = "InsufficientBufferSpace"
           THEN [ ret |-> r2, sizes |-> << DefaultBufSize, 2 * DefaultBufSize >>,
                  panic |-> FALSE, last |-> last1 ]
           ELSE [ ret |-> r1, sizes |-> << DefaultBufSize >>,
                  panic |-> FALSE, last |-> last1 ]

\* token_to_bytes(token, special) with r1 and r2 the results of the first and the
\* second engine conversion: the value returned, the buffer sizes of the engine
\* conversions made, whether it panicked, and the LAST_TOKEN it leaves
token_to_bytes(last, ids, t, r1, r2) ==
  LET d == is_eog_token(last, ids, t)
      \* `&&` evaluates is_eog_token only when token == token_eos()
      last1 == IF t = EOS THEN d.last ELSE last
  IN  IF t = EOS /\ d.ret
      THEN [ ret |-> Ok(<< Newline >>), sizes |-> << >>, panic |-> FALSE,
             last |-> last1 ]
      ELSE IF r1.kind = "InsufficientBufferSpace"
           THEN IF FitsUsize(r1.i)
                THEN [ ret |-> r2, sizes |-> << DefaultBufSize, -r1.i >>,
                       panic |-> FALSE, last |-> last1 ]
                ELSE [ ret |-> NoResult, sizes |-> << DefaultBufSize >>,
                       panic |-> TRUE, last |-> last1 ]
           ELSE [ ret |-> r1, sizes |-> << DefaultBufSize >>,
                  panic |-> FALSE, last |-> last1 ]

(* --------------------------- UTF-8 decoder ---------------------------- *)

\* U+FFFD, the replacement character
Replacement == 65533

IsLead(b) == b = 195

IsCont(b) == b = 169

\* encoding_rs decoder fed one byte: st is the held-back lead byte (or none),
\* out the characters decoded so far
DecodeByte(acc, b) ==
  IF acc.st = << >>
  THEN IF IsLead(b) THEN [ st |-> << b >>, out |-> acc.out ]
       ELSE IF IsCont(b) THEN [ st |-> << >>, out |-> Append(acc.out, Replacement) ]
       ELSE [ st |-> << >>, out |-> Append(acc.out, b) ]
  ELSE IF IsCont(b) THEN [ st |-> << >>, out |-> Append(acc.out, 233) ]
       ELSE IF IsLead(b)
            THEN [ st |-> << b >>, out |-> Append(acc.out, Replacement) ]
            ELSE [ st |-> << >>, out |-> Append(Append(acc.out, Replacement), b) ]

RECURSIVE DecodeBytes(_, _)
DecodeBytes(acc, bytes) ==
  IF bytes = << >> THEN acc
  ELSE DecodeBytes(DecodeByte(acc, Head(bytes)), Tail(bytes))

\* decoder.decode_to_string(&bytes, &mut out, last) on a decoder holding `held`
decode_to_string(held, bytes, last) ==
  LET r == DecodeBytes([ st |-> held, out |-> << >> ], bytes)
  IN  IF last /\ r.st /= << >>
      THEN [ st |-> << >>, out |-> Append(r.out, Replacement) ]
      ELSE r

(* ------------------------------- batch -------------------------------- *)

\* capacity the batch was constructed with: it held the prompt
BatchCapacity(np) == np

\* one entry of the batch
Entry(t, pos, seq_ids, logits) ==
  [ token |-> t, pos |-> pos, seq_ids |-> seq_ids, logits |-> logits ]

\* batch.clear()
BatchClear(b) == << >>

\* batch.add(token, pos, seq_ids, logits): fails beyond the capacity
BatchAddFails(b, cap) == Len(b) >= cap

BatchAdd(b, t, pos, seq_ids, logits) == Append(b, Entry(t, pos, seq_ids, logits))

\* batch.n_tokens()
n_tokens(b) == Len(b)

\* the batch main() enters the loop with: the prompt, logits on its last token
PromptBatch(np) ==
  [ k \in 1 .. np |-> Entry(0, k - 1, << 0 >>, k = np) ]

(* --------------------------- initial states --------------------------- *)

PromptLens == (MaxLen - MaxSteps) .. (MaxLen + 1)

Lens == { MaxLen }

NoConv == [ token |-> 0, first |-> NoResult, second |-> NoResult,
            ret |-> NoResult, sizes |-> << >>, panic |-> FALSE,
            before |-> None, after |-> None, called |-> FALSE ]

\* two generation sessions calling the detector
Sessions == { 1, 2 }

\* the loop's variables on entry to `while` (lines 8-17)
LoopInit(np, nl) ==
  /\ pc = "while"
  /\ exit = ""
  /\ n_prompt = np
  /\ n_len = nl
  /\ batch = PromptBatch(np)
  /\ n_cur = n_tokens(batch)
  /\ n_decode = 0
  /\ consecutive_eos = 0
  /\ token = 0
  /\ sample_idx = 0
  /\ output_bytes = << >>
  /\ pending = << >>
  /\ eog_ret = FALSE
  /\ n_sampled = 0
  /\ n_converted = 0
  /\ n_emitted = 0
  /\ n_decode_calls = 0
  /\ n_decode_errs = 0
  /\ seen = None

DetInit ==
  /\ dpc = [ s \in Sessions |-> "idle" ]
  /\ darg = [ s \in Sessions |-> 0 ]
  /\ drep = [ s \in Sessions |-> FALSE ]
  /\ hist = << >>

Init ==
  /\ LAST_TOKEN = None
  /\ eog_ids \in EogIdSets
  /\ \E np \in PromptLens, nl \in Lens : LoopInit(np, nl)
  /\ DetInit
  /\ conv = NoConv

(* -------------------------- generation loop --------------------------- *)

\* leaving the loop
Stop(why) ==
  /\ pc' = "stopped"
  /\ exit' = why

\* a loop that runs one position further
WhileCondLate(cur, len) == cur <= len + 1

\* line 19: the condition of `while n_cur <= n_len`
WhileCond(cur, len) == cur <= len

\* line 19: while n_cur <= n_len
WhileCheck ==
  /\ pc = "while"
  /\ IF WhileCond(n_cur, n_len)
     THEN pc' = "sample" /\ exit' = exit
     ELSE Stop("n_len")
  /\ UNCHANGED << LAST_TOKEN, eog_ids, n_prompt, n_len, n_cur, n_decode,
                  consecutive_eos, token, batch, sample_idx, output_bytes,
                  pending, eog_ret, n_sampled, n_converted, n_emitted,
                  n_decode_calls, n_decode_errs, seen, detVars, conv >>

\* lines 21-22: sampler.sample(&ctx, batch.n_tokens() - 1); sampler.accept(token)
Sample ==
  /\ pc = "sample"
  /\ \E t \in Tokens :
       /\ token' = t
       /\ seen' = IF seen \in { None, Some(t) } THEN Some(t) ELSE Mixed
  /\ sample_idx' = n_tokens(batch) - 1
  /\ n_sampled' = n_sampled + 1
  /\ pc' = "check_eog"
  /\ UNCHANGED << LAST_TOKEN, eog_ids, exit, n_prompt, n_len, n_cur, n_decode,
                  consecutive_eos, batch, output_bytes, pending, eog_ret,
                  n_converted, n_emitted, n_decode_calls, n_decode_errs,
                  detVars, conv >>

\* a loop that breaks at the first token the detector flags
EosLoopBreakFirst(count) == count >= 1

\* line 27: if consecutive_eos >= 3 { break }
EosLoopBreak(count) == count >= 3

\* a loop that keeps the count when the detector answers false
NextCountNoReset(ret, count) == IF ret THEN count + 1 ELSE count

\* lines 26 and 32: consecutive_eos += 1, or consecutive_eos = 0
NextCount(ret, count) == IF ret THEN count + 1 ELSE 0

\* lines 25-33: the check for an EOS loop
CheckEog ==
  /\ pc = "check_eog"
  /\ LET d == is_eog_token(LAST_TOKEN, eog_ids, token)
         count == NextCount(d.ret, consecutive_eos)
     IN  /\ LAST_TOKEN' = d.last
         /\ eog_ret' = d.ret
         /\ consecutive_eos' = count
         /\ IF d.ret /\ EosLoopBreak(count)
            THEN Stop("eos_loop")
            ELSE pc' = "convert" /\ exit' = exit
  /\ UNCHANGED << eog_ids, n_prompt, n_len, n_cur, n_decode, token, batch,
                  sample_idx, output_bytes, pending, n_sampled, n_converted,
                  n_emitted, n_decode_calls, n_decode_errs, seen, detVars,
                  conv >>

\* line 35: let output_bytes = model.token_to_bytes(token, Special::Tokenize)?
Convert ==
  /\ pc = "convert"
  /\ \E r1 \in token_to_bytes_with_size(DefaultBufSize) :
       \E r2 \in RetryResults(token, r1) :
         LET c == token_to_bytes(LAST_TOKEN, eog_ids, token, r1, r2)
         IN  /\ LAST_TOKEN' = c.last
             /\ IF c.panic
                THEN /\ Stop("panic")
                     /\ UNCHANGED << output_bytes, n_converted >>
                ELSE IF c.ret.kind = "Ok"
                     THEN /\ output_bytes' = c.ret.bytes
                          /\ n_converted' = n_converted + 1
                          /\ pc' = "emit"
                          /\ exit' = exit
                     ELSE /\ Stop("convert_error")
                          /\ UNCHANGED << output_bytes, n_converted >>
  /\ UNCHANGED << eog_ids, n_prompt, n_len, n_cur, n_decode, consecutive_eos,
                  token, batch, sample_idx, pending, eog_ret, n_sampled,
                  n_emitted, n_decode_calls, n_decode_errs, seen, detVars,
                  conv >>

\* lines 36-42: decode the bytes without flushing, print what is not empty
Emit ==
  /\ pc = "emit"
  /\ LET r == decode_to_string(pending, output_bytes, FALSE)
     IN  /\ pending' = r.st
         /\ n_emitted' = IF r.out /= << >> THEN n_emitted + 1 ELSE n_emitted
  /\ pc' = "batch"
  /\ UNCHANGED << LAST_TOKEN, eog_ids, exit, n_prompt, n_len, n_cur, n_decode,
                  consecutive_eos, token, batch, sample_idx, output_bytes,
                  eog_ret, n_sampled, n_converted, n_decode_calls,
                  n_decode_errs, seen, detVars, conv >>

\* a loop that adds the token without clearing the batch
NewBatchNoClear(b, t, cur) == BatchAdd(b, t, cur, << 0 >>, TRUE)

\* lines 44-45: batch.clear(); batch.add(token, n_cur, &[0], true)
NewBatch(b, t, cur) == BatchAdd(BatchClear(b), t, cur, << 0 >>, TRUE)

\* a loop that advances the position by two
NextPosSkip(cur) == cur + 2

\* line 46: n_cur += 1
NextPos(cur) == cur + 1

\* lines 44-46: batch.clear(); batch.add(token, n_cur, &[0], true)?; n_cur += 1
BatchStep ==
  /\ pc = "batch"
  /\ LET cleared == BatchClear(batch)
     IN  IF BatchAddFails(cleared, BatchCapacity(n_prompt))
         THEN /\ batch' = cleared
              /\ Stop("batch_error")
              /\ UNCHANGED n_cur
         ELSE /\ batch' = NewBatch(batch, token, n_cur)
              /\ n_cur' = NextPos(n_cur)
              /\ pc' = "decode"
              /\ exit' = exit
  /\ UNCHANGED << LAST_TOKEN, eog_ids, n_prompt, n_len, n_decode,
                  consecutive_eos, token, sample_idx, output_bytes, pending,
                  eog_ret, n_sampled, n_converted, n_emitted, n_decode_calls,
                  n_decode_errs, seen, detVars, conv >>

\* a loop that submits the batch again after a failed decode
RetryAfterDecodeError ==
  /\ pc' = "decode"
  /\ exit' = exit

\* lines 50-51: eprintln!("Decode error: ..."); break
AfterDecodeError == Stop("decode_error")

\* lines 49-54: ctx.decode(&mut batch); on Err break, else n_decode += 1
Decode ==
  /\ pc = "decode"
  /\ n_decode_calls' = n_decode_calls + 1
  /\ \E ok \in BOOLEAN :
       IF ok
       THEN /\ n_decode' = n_decode + 1
            /\ pc' = "while"
            /\ UNCHANGED << exit, n_decode_errs >>
       ELSE /\ n_decode_errs' = n_decode_errs + 1
            /\ AfterDecodeError
            /\ UNCHANGED n_decode
  /\ UNCHANGED << LAST_TOKEN, eog_ids, n_prompt, n_len, n_cur,
                  consecutive_eos, token, batch, sample_idx, output_bytes,
                  pending, eog_ret, n_sampled, n_converted, n_emitted, seen,
                  detVars, conv >>

Next == WhileCheck \/ Sample \/ CheckEog \/ Convert \/ Emit \/ BatchStep \/ Decode

Spec == Init /\ [][Next]_vars

\* main runs on: every call it makes returns, so a step that can be taken is taken
SpecFair == Spec /\ WF_vars(Next)

(* ------------------------- detector sessions -------------------------- *)

\* calls begun: completed ones and those between the load and the store
Begun == Len(hist) + Cardinality({ s \in Sessions : dpc[s] = "store" })

\* line 140 of a call is_eog_token(t) made by session s: LAST_TOKEN is read
DetLoad(s) ==
  /\ dpc[s] = "idle"
  /\ Begun < MaxCalls
  /\ \E t \in Tokens :
       /\ darg' = [ darg EXCEPT ![s] = t ]
       /\ drep' = [ drep EXCEPT ![s] = IsRepeat(LAST_TOKEN, t) ]
  /\ dpc' = [ dpc EXCEPT ![s] = "store" ]
  /\ UNCHANGED << LAST_TOKEN, eog_ids, loopVars, hist, conv >>

\* lines 141-142 of that call: LAST_TOKEN is written and the value returned
DetStore(s) ==
  /\ dpc[s] = "store"
  /\ LAST_TOKEN' = StoreLast(LAST_TOKEN, darg[s])
  /\ hist' = Append(hist, [ session |-> s, token |-> darg[s],
                            ret |-> EogValue(drep[s], eog_ids, darg[s]) ])
  /\ dpc' = [ dpc EXCEPT ![s] = "idle" ]
  /\ UNCHANGED << eog_ids, loopVars, darg, drep, conv >>

InitDet ==
  /\ LAST_TOKEN = None
  /\ eog_ids \in EogIdSets
  /\ LoopInit(MaxLen, MaxLen)
  /\ DetInit
  /\ conv = NoConv

NextDet == \E s \in Sessions : DetLoad(s) \/ DetStore(s)

SpecDet == InitDet /\ [][NextDet]_vars

(* ---------------------------- codec calls ----------------------------- *)

\* a call model.is_eog_token(t) made outside token_to_bytes
CodecDetect ==
  /\ \E t \in Tokens :
       LAST_TOKEN' = is_eog_token(LAST_TOKEN, eog_ids, t).last
  /\ UNCHANGED << eog_ids, loopVars, detVars, conv >>

\* a call model.token_to_bytes(t, special) with the engine answering r1, r2,
\* r1 drawn from firsts
CodecCallWith(firsts) ==
  /\ \E t \in Tokens :
       \E r1 \in firsts :
         \E r2 \in RetryResults(t, r1) :
           LET c == token_to_bytes(LAST_TOKEN, eog_ids, t, r1, r2)
           IN  /\ LAST_TOKEN' = c.last
               /\ conv' = [ token |-> t,
                            first |-> IF c.sizes = << >> THEN NoResult ELSE r1,
                            second |-> r2, ret |-> c.ret, sizes |-> c.sizes,
                            panic |-> c.panic, before |-> LAST_TOKEN,
                            after |-> c.last, called |-> TRUE ]
  /\ UNCHANGED << eog_ids, loopVars, detVars >>

\* token_to_bytes over an engine that keeps the contract of its conversion
CodecCall == CodecCallWith(token_to_bytes_with_size(DefaultBufSize))

NextCodec == CodecDetect \/ CodecCall

SpecCodec == InitDet /\ [][NextCodec]_vars

\* token_to_bytes over every first result the error type admits
CodecCallAny == CodecCallWith(AnyFirstResults)

NextCodecAny == CodecDetect \/ CodecCallAny

SpecCodecAny == InitDet /\ [][NextCodecAny]_vars

(* ------------------------------ claims -------------------------------- *)

\* positions of main between the EOS-loop check and the end of the iteration
InBody == pc \in { "convert", "emit", "batch", "decode" }

\* a token that is neither EOS nor classified end-of-generation by the engine
Plain(t) == t /= EOS /\ ~llama_token_is_eog(eog_ids, t)

SoloRun == \A k \in 1 .. Len(hist) : hist[k].session = hist[1].session

\* the first three calls submitted the same plain token
ThreeSame ==
  /\ Len(hist) >= 3
  /\ Plain(hist[1].token)
  /\ hist[2].token = hist[1].token
  /\ hist[3].token = hist[1].token

\* the fourth call submitted a different plain token
FourthDiffers ==
  /\ Len(hist) >= 4
  /\ Plain(hist[4].token)
  /\ hist[4].token /= hist[1].token

RECURSIVE OwnLast(_, _)
OwnLast(s, k) ==
  IF k = 0 THEN None
  ELSE IF hist[k].session = s THEN Some(hist[k].token)
  ELSE OwnLast(s, k - 1)

\* C3: what is_eog_token returns in a session depends only on the tokens that
\* session submitted: every recorded value is the one a detector whose last
\* token starts as none in each session would have returned.
C3_PerSession ==
  \A k \in 1 .. Len(hist) :
    hist[k].ret =
      EogValue(OwnLast(hist[k].session, k - 1) = Some(hist[k].token),
               eog_ids, hist[k].token)

C5_Scenario ==
  /\ pc = "stopped"
  /\ n_prompt = 5
  /\ n_len = 10
  /\ seen /= None
  /\ seen /= Mixed
  /\ Plain(seen[1])
  /\ n_decode_errs = 0
  /\ exit \notin { "convert_error", "panic", "batch_error" }

C6_EosAlwaysEog ==
  \A k \in 1 .. Len(hist) : hist[k].token = EOS => hist[k].ret

\* EOS submitted after another token, with an engine that does not classify it
C6_Witness ==
  /\ ~llama_token_is_eog(eog_ids, EOS)
  /\ Len(hist) >= 2
  /\ hist[2].token = EOS
  /\ hist[1].token /= EOS
  /\ hist[2].ret

\* C7: the step in which a decode fails leaves the loop stopped by the decode
\* error with n_decode, the sampled, converted and emitted counts unchanged, and
\* after a failed decode no step samples, converts, emits or decodes.
C7_DecodeErrorEnds ==
  [][ /\ n_decode_errs' > n_decode_errs =>
           /\ pc' = "stopped"
           /\ exit' = "decode_error"
           /\ n_decode' = n_decode
           /\ n_decode_calls' = n_decode + 1
           /\ UNCHANGED << n_sampled, n_converted, n_emitted >>
      /\ n_decode_errs > 0 =>
           UNCHANGED << pc, exit, n_sampled, n_converted, n_emitted,
                        n_decode_calls, n_decode, n_decode_errs >> ]_vars

C7_Witness ==
  /\ n_decode_errs = 1
  /\ pc = "stopped"
  /\ n_decode >= 1

\* C8 as stated: at the head of the loop and after the loop, the exit by a
\* failed decode included, n_cur = prompt length + n_decode.
C8_PositionIsDecoded ==
  pc \in { "while", "stopped" } => n_cur = n_prompt + n_decode

\* C8 amended: n_cur = prompt length + n_decode at the head of the loop, inside
\* the iteration up to the increment and at every exit except the failed
\* decode; n_cur is incremented before the decode, so while the decode is
\* pending and after a failed decode n_cur = prompt length + n_decode + 1.
C8_PositionLeadsByOne ==
  n_cur = n_prompt + n_decode
            + (IF pc = "decode" \/ exit = "decode_error" THEN 1 ELSE 0)

C8_Witness ==
  /\ exit = "decode_error"
  /\ n_decode >= 1
  /\ n_cur = n_prompt + n_decode + 1

\* C9: at every decode of the loop the batch holds exactly the token sampled in
\* this iteration, at the position before the increment, with sequence id 0
\* and the output flag set; from the second iteration on the sampler index
\* batch.n_tokens() - 1 is 0.
C9_NoStaleEntries ==
  /\ pc = "decode" => batch = << Entry(token, n_cur - 1, << 0 >>, TRUE) >>
  /\ (pc = "while" /\ n_sampled >= 1) => n_tokens(batch) - 1 = 0
  /\ n_sampled >= 2 => sample_idx = 0

C9_Witness ==
  /\ pc = "decode"
  /\ n_prompt > 1
  /\ n_sampled >= 2
  /\ sample_idx = 0

\* C10: for a non-EOS token the first conversion uses a buffer of 8; a first
\* result other than InsufficientBufferSpace is returned with no second
\* conversion; after InsufficientBufferSpace(i) exactly one more conversion is
\* made, with a buffer of -i, and its result is returned.
C10_RetryProtocol ==
  (conv.token /= EOS /\ conv.first /= NoResult) =>
    /\ conv.sizes[1] = 8
    /\ conv.first.kind /= "InsufficientBufferSpace" =>
         /\ conv.sizes = << 8 >>
         /\ conv.ret = conv.first
    /\ conv.first.kind = "InsufficientBufferSpace" =>
         /\ conv.sizes = << 8, -conv.first.i >>
         /\ conv.second /= NoResult
         /\ conv.ret = conv.second
         /\ ~conv.panic

\* a retry that failed again for lack of space and was returned as it was
C10_Witness ==
  /\ conv.token /= EOS
  /\ conv.first = InsufficientBufferSpace(-9)
  /\ conv.sizes = << 8, 9 >>
  /\ conv.ret.kind = "InsufficientBufferSpace"

\* C11: token_to_bytes returns the single newline byte without any engine
\* conversion exactly when the token is EOS and is_eog_token classifies it
\* (which it always does for EOS); for every other token it makes an engine
\* conversion and returns the result of the last one made.
C11_EosSubstitution ==
  conv.called =>
    /\ (conv.ret = Ok(<< Newline >>) /\ conv.sizes = << >>)
         <=> (conv.token = EOS
                /\ is_eog_token(conv.before, eog_ids, conv.token).ret)
    /\ conv.token = EOS => (conv.ret = Ok(<< Newline >>) /\ conv.sizes = << >>)
    /\ conv.token /= EOS =>
         /\ conv.sizes /= << >>
         /\ conv.ret = (IF Len(conv.sizes) = 1 THEN conv.first ELSE conv.second)

\* EOS converted on a fresh detector with an engine that does not classify it
C11_Witness ==
  /\ conv.called
  /\ conv.token = EOS
  /\ conv.before = None
  /\ ~llama_token_is_eog(eog_ids, EOS)
  /\ conv.ret = Ok(<< Newline >>)
  /\ conv.sizes = << >>

\* C12: when the loop is stopped the decoder has been flushed: it holds back
\* no bytes of an incomplete character.
C12_FlushedAtStop ==
  pc = "stopped" => pending = << >>

\* C13: token_to_bytes panics exactly when the first conversion of a non-EOS
\* token returns InsufficientBufferSpace(i) with i > 0; for every i <= 0 it
\* makes the retry with a buffer of -i and does not panic.
C13_PanicsIffPositive ==
  (conv.called /\ conv.token /= EOS) =>
    /\ conv.panic <=>
         (conv.first.kind = "InsufficientBufferSpace" /\ conv.first.i > 0)
    /\ (conv.first.kind = "InsufficientBufferSpace" /\ conv.first.i <= 0) =>
         /\ ~conv.panic
         /\ conv.sizes = << DefaultBufSize, -conv.first.i >>

\* C14: every completed call is_eog_token(t) leaves t as the stored last token,
\* whatever it returned.
C14_StoredOnEveryCall ==
  [][ Len(hist') > Len(hist) =>
        LAST_TOKEN' = Some(hist'[Len(hist')].token) ]_vars

\* one session submitted the same plain token twice and got false, then true:
\* the call that returned false changed the state
C14_Witness ==
  /\ SoloRun
  /\ Len(hist) = 2
  /\ Plain(hist[1].token)
  /\ hist[2].token = hist[1].token
  /\ ~hist[1].ret
  /\ hist[2].ret
  /\ LAST_TOKEN = Some(hist[2].token)

\* C15: the check of the sampled token sets consecutive_eos to its value plus
\* one when is_eog_token returned true and to 0 when it returned false; the
\* loop leaves by the stop signal in that check exactly when the count
\* reaches 3, and otherwise goes on to convert the token (with the count 1 or
\* 2 as with 0); no other step changes the count, which is 0, 1 or 2 at the
\* head of every iteration.
C15_ThirdConsecutiveExit ==
  [][ /\ pc = "check_eog" =>
           /\ consecutive_eos \in 0 .. 2
           /\ consecutive_eos' = (IF eog_ret' THEN consecutive_eos + 1 ELSE 0)
           /\ (exit' = "eos_loop") <=> (eog_ret' /\ consecutive_eos' = 3)
           /\ (exit' = "eos_loop") <=> (pc' = "stopped")
           /\ pc' /= "stopped" => pc' = "convert"
      /\ pc /= "check_eog" =>
           /\ consecutive_eos' = consecutive_eos
           /\ exit' /= "eos_loop"
      /\ pc' \in { "while", "sample", "check_eog" } => consecutive_eos' \in 0 .. 2
    ]_vars

\* the second flagged token in a row has been converted and added, and is
\* being decoded
C15_Witness ==
  /\ pc = "decode"
  /\ eog_ret
  /\ consecutive_eos = 2
  /\ batch = << Entry(token, n_cur - 1, << 0 >>, TRUE) >>

\* every value LAST_TOKEN can hold
LastValues == { None } \cup { Some(t) : t \in Tokens }

\* one first result for each way token_to_bytes goes on: a piece, an error
\* that is returned, and a buffer too small by one byte
FirstOfEachKind ==
  { Ok(<< 97 >>), UnknownTokenType, InsufficientBufferSpace(-(DefaultBufSize + 1)) }

\* token_to_bytes of a non-EOS token leaves LAST_TOKEN as it was, whatever it
\* was and whichever way the conversion goes
NonEosLeavesLast ==
  \A last \in LastValues : \A t \in Tokens \ { EOS } :
    \A r1 \in FirstOfEachKind :
      token_to_bytes(last, eog_ids, t, r1, UnknownTokenType).last = last

\* C16: at every token_to_bytes call of the loop LAST_TOKEN already holds the
\* sampled token (the loop has just submitted it to is_eog_token) and the call
\* leaves LAST_TOKEN unchanged; for a non-EOS token token_to_bytes leaves
\* LAST_TOKEN unchanged whatever it held.
C16_CodecKeepsDetectorState ==
  [][ pc = "convert" =>
        /\ LAST_TOKEN = Some(token)
        /\ LAST_TOKEN' = LAST_TOKEN
        /\ NonEosLeavesLast ]_vars

\* the loop has converted the EOS token: the codec called is_eog_token, and
\* LAST_TOKEN is what it was
C16_Witness ==
  /\ pc = "emit"
  /\ token = EOS
  /\ output_bytes = << Newline >>
  /\ LAST_TOKEN = Some(EOS)

\* the number of iterations the length allows: n_len - prompt length + 1
MaxIterations == IF n_prompt > n_len THEN 0 ELSE n_len - n_prompt + 1

\* C17: the loop starts at most n_len - prompt length + 1 iterations, n_cur is
\* the prompt length plus the iterations completed, and the loop is eventually
\* stopped.
C17_Terminates ==
  /\ [](n_sampled <= MaxIterations)
  /\ [](pc = "while" => n_cur = n_prompt + n_sampled)
  /\ <>(pc = "stopped")

\* the loop ran every iteration the length allows and stopped
C17_Witness ==
  /\ pc = "stopped"
  /\ exit = "n_len"
  /\ n_sampled = MaxIterations
  /\ n_sampled >= 2

====
